---- MODULE Spec2Model ----
(***************************************************************************)
(* Stochastic universal sampling (src/src/lib.rs).                         *)
(*                                                                         *)
(* One behaviour of the model is one call of choose_multiple_weighted or   *)
(* of choose_multiple, from its entry to its return or panic.  The random  *)
(* source is the caller's: every value it can hand back is a               *)
(* nondeterministic choice of the action that asks for it.                 *)
(*                                                                         *)
(* f64 arithmetic is modelled as binary floating point with round to       *)
(* nearest, ties to even, on a significand of FloatBits bits (f64 has 53). *)
(* A float is a pair <<m, e>> standing for m * 2^e, kept in the canonical  *)
(* form where m is odd (or <<0, 0>> for zero).  The exponent is unbounded: *)
(* overflow to infinity, subnormals and NaN are not modelled, and all      *)
(* weights are non-negative, so the debug_assert of line 26 and the        *)
(* is_finite assert of line 36 never fire.                                 *)
(***************************************************************************)
EXTENDS Integers, Sequences, FiniteSets

\* Bounds of the model.
FloatBits == 4
MaxAmount == 7
MaxLen == 3

NO_DATA == "no data: can not choose from empty set"
INTERNAL_ERROR == "Internal Error"

----------------------------------------------------------------------------
\* Floating point.

RECURSIVE Pow2(_)
Pow2(n) == IF n <= 0 THEN 1 ELSE 2 * Pow2(n - 1)

RECURSIVE BitLen(_)
BitLen(n) == IF n = 0 THEN 0 ELSE 1 + BitLen(n \div 2)

RECURSIVE Normal(_)
Normal(f) ==
    IF f[1] = 0 THEN <<0, 0>>
    ELSE IF f[1] % 2 = 0 THEN Normal(<<f[1] \div 2, f[2] + 1>>)
    ELSE f

\* The float nearest to n * 2^e, ties to the even significand.
RoundToPrecision(n, e) ==
    LET k == BitLen(n) - FloatBits IN
    IF k <= 0 THEN Normal(<<n, e>>)
    ELSE LET q    == n \div Pow2(k)
             r    == n % Pow2(k)
             half == Pow2(k - 1)
             m    == IF r > half \/ (r = half /\ q % 2 = 1) THEN q + 1 ELSE q
         IN  Normal(<<m, e + k>>)

MinExp(a, b) == IF a[2] < b[2] THEN a[2] ELSE b[2]

\* a + b
FAdd(a, b) ==
    LET e == MinExp(a, b) IN
    RoundToPrecision(a[1] * Pow2(a[2] - e) + b[1] * Pow2(b[2] - e), e)

\* a * b
FMul(a, b) == RoundToPrecision(a[1] * b[1], a[2] + b[2])

\* a / b for b # 0: the quotient to 2*FloatBits+2 extra bits and a sticky
\* bit for the remainder, then rounded once.
FDiv(a, b) ==
    LET s  == 2 * FloatBits + 2
        n  == a[1] * Pow2(s)
        q0 == n \div b[1]
        st == IF n % b[1] > 0 THEN 1 ELSE 0
    IN  RoundToPrecision(2 * q0 + st, a[2] - b[2] - s - 1)

\* a < b
FLess(a, b) ==
    LET e == MinExp(a, b) IN
    a[1] * Pow2(a[2] - e) < b[1] * Pow2(b[2] - e)

\* a <= b
FLessEq(a, b) == ~FLess(b, a)

\* `n as f64`
FromInt(n) == RoundToPrecision(n, 0)

FZero == <<0, 0>>

\* f64::EPSILON, the gap between 1.0 and the next float.
EPSILON == Normal(<<1, 1 - FloatBits>>)

\* The values rng.gen::<f64>() can return: the multiples of 2^-FloatBits in
\* [0, 1).
UniformDraws == {Normal(<<j, 0 - FloatBits>>) : j \in 0 .. (Pow2(FloatBits) - 1)}

----------------------------------------------------------------------------
\* Inputs.

\* A weight too small to lift the total above EPSILON * N.
Tiny == Normal(<<1, 0 - FloatBits>>)

WeightValues == {FZero, Tiny, FromInt(1), FromInt(2), FromInt(5)}

WeightSeqs == UNION {[1 .. n -> WeightValues] : n \in 0 .. MaxLen}

VARIABLES
    fn,        \* the entry point the caller called
    amount,    \* argument amount
    weights,   \* argument weights (choose_multiple_weighted)
    items,     \* argument items (choose_multiple); set when the weighted
               \* sampler delegates
    pc,        \* position in the code
    cum,       \* the cumulative sums (the shadowing `weights` of line 24)
    results,   \* `samples` / `results`, indices counted from 0
    batches,   \* what each iteration of the loop of line 69 appended
    rngCalls,  \* number of requests made to the random source
    err        \* panic message

vars == <<fn, amount, weights, items, pc, cum, results, batches, rngCalls, err>>

Init ==
    /\ fn \in {"choose_multiple_weighted", "choose_multiple"}
    /\ amount \in 0 .. MaxAmount
    /\ IF fn = "choose_multiple_weighted"
         THEN weights \in WeightSeqs /\ items = 0 /\ pc = "cmw_entry"
         ELSE weights = <<>> /\ items \in 0 .. MaxLen /\ pc = "cm_assert"
    /\ cum = <<>>
    /\ results = <<>>
    /\ batches = <<>>
    /\ rngCalls = 0
    /\ err = "none"

----------------------------------------------------------------------------
\* Helpers shared by the actions.

Count(s, v) == Cardinality({k \in 1 .. Len(s) : s[k] = v})

RemoveAt(s, i) == SubSeq(s, 1, i - 1) \o SubSeq(s, i + 1, Len(s))

\* slice.shuffle(rng): every ordering of the elements can come out.
RECURSIVE Shuffles(_)
Shuffles(s) ==
    IF s = <<>> THEN {<<>>}
    ELSE UNION {{<<s[i]>> \o t : t \in Shuffles(RemoveAt(s, i))} :
                i \in {k \in 1 .. Len(s) : \A j \in 1 .. (k - 1) : s[j] # s[k]}}

----------------------------------------------------------------------------
\* choose_multiple_weighted

\* Variant of EntryPanics: the assert of line 21 left out.
EntryPanicsNever(amt, n) == FALSE

\* Variant of EntryPanics: the assert placed before the test of amount.
EntryPanicsOnEmpty(amt, n) == n = 0

\* Lines 18-22: the assert is reached only when amount # 0.
EntryPanics(amt, n) == amt # 0 /\ n = 0

\* Lines 18-22.
WeightedEntry ==
    /\ pc = "cmw_entry"
    /\ IF EntryPanics(amount, Len(weights))
         THEN pc' = "panic" /\ err' = NO_DATA
         ELSE /\ pc' = IF amount = 0 THEN "done" ELSE "cmw_cumsum"
              /\ err' = err
    /\ UNCHANGED <<fn, amount, weights, items, cum, results, batches, rngCalls>>

\* Lines 24-30: the running sum, rounded after every addition.
RECURSIVE CumulativeSum(_)
CumulativeSum(w) ==
    IF w = <<>> THEN <<>>
    ELSE LET front == CumulativeSum(SubSeq(w, 1, Len(w) - 1))
             sum   == IF front = <<>> THEN FZero ELSE front[Len(front)]
         IN  Append(front, FAdd(sum, w[Len(w)]))

WeightedCumsum ==
    /\ pc = "cmw_cumsum"
    /\ cum' = CumulativeSum(weights)
    /\ pc' = "cmw_zero_check"
    /\ UNCHANGED <<fn, amount, weights, items, results, batches, rngCalls, err>>

\* Line 33.
EffectivelyZero(c) == FLessEq(c[Len(c)], FMul(EPSILON, FromInt(Len(c))))

\* Lines 32-36.
WeightedZeroCheck ==
    /\ pc = "cmw_zero_check"
    /\ IF cum = <<>>
         THEN pc' = "panic" /\ err' = INTERNAL_ERROR /\ items' = items
         ELSE /\ err' = err
              /\ IF EffectivelyZero(cum)
                   THEN items' = Len(cum) /\ pc' = "cm_assert"
                   ELSE items' = items /\ pc' = "cmw_walk"
    /\ UNCHANGED <<fn, amount, weights, cum, results, batches, rngCalls>>

\* Lines 45-47.
RECURSIVE Advance(_, _, _)
Advance(c, idx, arm) ==
    IF idx < Len(c) /\ FLess(c[idx + 1], arm)
      THEN Advance(c, idx + 1, arm)
      ELSE idx

\* Lines 43-49, from arm number `arm` on.
RECURSIVE Walk(_, _, _, _, _, _, _)
Walk(c, amt, spacing, offset, arm, idx, samples) ==
    IF arm >= amt THEN samples
    ELSE LET a == FAdd(FMul(FromInt(arm), spacing), offset)
             i == Advance(c, idx, a)
         IN  Walk(c, amt, spacing, offset, arm + 1, i, Append(samples, i))

\* Variant of SelectArms: the loop over the arms starts at 1.
SelectArmsSkipFirst(c, amt, spacing, offset) ==
    Walk(c, amt, spacing, offset, 1, 0, <<>>)

\* Lines 41-49.
SelectArms(c, amt, spacing, offset) ==
    Walk(c, amt, spacing, offset, 0, 0, <<>>)

\* Lines 38-49 for the uniform draw u.
Sample(c, amt, u) ==
    LET arm_spacing == FDiv(c[Len(c)], FromInt(amt))
        arm_offset  == FMul(u, arm_spacing)
    IN  SelectArms(c, amt, arm_spacing, arm_offset)

\* Lines 38-49.
WeightedWalk ==
    /\ pc = "cmw_walk"
    /\ \E u \in UniformDraws : results' = Sample(cum, amount, u)
    /\ rngCalls' = rngCalls + 1
    /\ pc' = "cmw_shuffle"
    /\ UNCHANGED <<fn, amount, weights, items, cum, batches, err>>

\* Lines 51-52.
WeightedShuffle ==
    /\ pc = "cmw_shuffle"
    /\ results' \in Shuffles(results)
    /\ rngCalls' = rngCalls + 1
    /\ pc' = "done"
    /\ UNCHANGED <<fn, amount, weights, items, cum, batches, err>>

----------------------------------------------------------------------------
\* choose_multiple

\* Line 67.
AssertHolds(amt, n) == amt = 0 \/ n > 0

\* Lines 67-68.
UnweightedAssert ==
    /\ pc = "cm_assert"
    /\ IF AssertHolds(amount, items)
         THEN pc' = "cm_loop" /\ err' = err
         ELSE pc' = "panic" /\ err' = NO_DATA
    /\ UNCHANGED <<fn, amount, weights, items, cum, results, batches, rngCalls>>

\* Line 70.
NumSamples(amt, res) == amt - Len(res)

\* Variant of FullRound: the range 1..=items.
FullRoundFromOne(n) == [i \in 1 .. n |-> i]

\* Line 73: the range 0..items.
FullRound(n) == [i \in 1 .. n |-> i - 1]

Injective(s) == \A i, j \in 1 .. Len(s) : s[i] = s[j] => i = j

\* Variant of IndexSample: one index per call, whatever k.
IndexSampleOneAtATime(n, k) == {<<i>> : i \in 0 .. (n - 1)}

\* Line 76: rand::seq::index::sample(rng, n, k), k distinct indices of 0..n
\* in any order.
IndexSample(n, k) == {s \in [1 .. k -> 0 .. (n - 1)] : Injective(s)}

\* Lines 69-73: an over-sampling iteration.
UnweightedLoopRound ==
    /\ pc = "cm_loop"
    /\ Len(results) < amount
    /\ NumSamples(amount, results) >= items
    /\ results' = results \o FullRound(items)
    /\ batches' = Append(batches, FullRound(items))
    /\ UNCHANGED <<fn, amount, weights, items, pc, cum, rngCalls, err>>

\* Lines 69-70, 74-77: the final, partial iteration.
UnweightedLoopSample ==
    /\ pc = "cm_loop"
    /\ Len(results) < amount
    /\ NumSamples(amount, results) < items
    /\ \E s \in IndexSample(items, NumSamples(amount, results)) :
          /\ results' = results \o s
          /\ batches' = Append(batches, s)
    /\ rngCalls' = rngCalls + 1
    /\ UNCHANGED <<fn, amount, weights, items, pc, cum, err>>

\* Line 69: the loop condition fails.
UnweightedLoopExit ==
    /\ pc = "cm_loop"
    /\ ~(Len(results) < amount)
    /\ pc' = "cm_shuffle"
    /\ UNCHANGED <<fn, amount, weights, items, cum, results, batches, rngCalls, err>>

\* Lines 79-80.
UnweightedShuffle ==
    /\ pc = "cm_shuffle"
    /\ results' \in Shuffles(results)
    /\ rngCalls' = rngCalls + 1
    /\ pc' = "done"
    /\ UNCHANGED <<fn, amount, weights, items, cum, batches, err>>

----------------------------------------------------------------------------

Next ==
    \/ WeightedEntry
    \/ WeightedCumsum
    \/ WeightedZeroCheck
    \/ WeightedWalk
    \/ WeightedShuffle
    \/ UnweightedAssert
    \/ UnweightedLoopRound
    \/ UnweightedLoopSample
    \/ UnweightedLoopExit
    \/ UnweightedShuffle

Spec == Init /\ [][Next]_vars

----------------------------------------------------------------------------
\* Vocabulary of the properties.

Weighted == fn = "choose_multiple_weighted"

\* Size of the candidate set of the call.
NumCandidates == IF Weighted THEN Len(weights) ELSE items

\* The weighted call took the comb walk (it did not delegate).
Walked == Weighted /\ amount > 0 /\ items = 0

CeilDiv(a, b) == (a + b - 1) \div b

\* The value of a weight in units of 2^-FloatBits, exactly.
ExactScaled(f) == f[1] * Pow2(f[2] + FloatBits)

RECURSIVE ExactTotal(_)
ExactTotal(w) ==
    IF w = <<>> THEN 0 ELSE ExactScaled(w[1]) + ExactTotal(Tail(w))

AllZero(w) == \A i \in 1 .. Len(w) : w[i] = FZero

AllEqual(w) == \A i, j \in 1 .. Len(w) : w[i] = w[j]

Abs(x) == IF x < 0 THEN 0 - x ELSE x

\* How often each of 0..n occurs in s (n itself is no valid index).
Counts(s, n) == [i \in 0 .. n |-> Count(s, i)]

\* Everything the loop of choose_multiple can leave in `results`.
RECURSIVE LoopResults(_, _, _)
LoopResults(amt, n, res) ==
    IF ~(Len(res) < amt) THEN {res}
    ELSE IF NumSamples(amt, res) >= n
      THEN LoopResults(amt, n, res \o FullRound(n))
      ELSE UNION {LoopResults(amt, n, res \o s) :
                  s \in IndexSample(n, NumSamples(amt, res))}

\* The multisets choose_multiple(rng, amt, n) can return, n > 0.
UnweightedOutcomes(amt, n) == {Counts(r, n) : r \in LoopResults(amt, n, <<>>)}

\* The multisets choose_multiple_weighted(rng, amt, w) can return, amt > 0
\* and w not empty.
WeightedOutcomes(amt, w) ==
    LET c == CumulativeSum(w) IN
    IF EffectivelyZero(c)
      THEN UnweightedOutcomes(amt, Len(w))
      ELSE {Counts(Sample(c, amt, u), Len(w)) : u \in UniformDraws}

----------------------------------------------------------------------------
\* Properties.

\* C1: a call that returns, returns exactly `amount` indices.
C1_LengthIsAmount == pc = "done" => Len(results) = amount

C1_Witness ==
    /\ pc = "done" /\ Walked
    /\ amount = MaxAmount /\ Len(weights) = MaxLen
    /\ Len(results) = MaxAmount

\* C2: every returned value is an index of the candidate set, 0..N-1.
C2_IndicesInRange ==
    pc = "done" => \A k \in 1 .. Len(results) :
                      results[k] \in 0 .. (NumCandidates - 1)

\* C3: when amount*w_i/total is a whole number for every i, the weighted
\* sampler returns index i exactly that many times.
C3_ExactWhenWhole ==
    LET t == ExactTotal(weights) IN
    (/\ pc = "done" /\ Weighted /\ amount > 0 /\ t > 0
     /\ \A i \in 1 .. Len(weights) : (amount * ExactScaled(weights[i])) % t = 0)
    => \A i \in 1 .. Len(weights) :
          Count(results, i - 1) * t = amount * ExactScaled(weights[i])

\* C4: when the total weight is positive, the weighted sampler returns no
\* index whose weight is zero.
C4_NoZeroWeightIndex ==
    (pc = "done" /\ Weighted /\ ExactTotal(weights) > 0)
    => \A k \in 1 .. Len(results) :
          results[k] < Len(weights) => weights[results[k] + 1] # FZero

\* C5: for weights that are all equal, the weighted sampler can return
\* exactly the multisets that choose_multiple(rng, amount, N) can return.
C5_EqualWeightsSameOutcomes ==
    (/\ pc = "done" /\ Weighted /\ amount > 0
     /\ Len(weights) > 0 /\ AllEqual(weights))
    => /\ Counts(results, Len(weights)) \in UnweightedOutcomes(amount, Len(weights))
       /\ WeightedOutcomes(amount, weights) = UnweightedOutcomes(amount, Len(weights))

\* C6: when the total weight is positive, the number of times the weighted
\* sampler returns index i differs from amount*w_i/total by at most one.
C6_WithinOneOfIdeal ==
    LET t == ExactTotal(weights) IN
    (pc = "done" /\ Weighted /\ t > 0)
    => \A i \in 1 .. Len(weights) :
          Abs(Count(results, i - 1) * t - amount * ExactScaled(weights[i])) <= t

\* C7: a positive amount over an empty candidate set panics with the 'no
\* data' message, and the random source has not been asked for anything.
C7_EmptyInputPanicsBeforeRng ==
    (amount > 0 /\ NumCandidates = 0 /\ pc \notin {"cmw_entry", "cm_assert"})
    => /\ pc = "panic" /\ err = NO_DATA
       /\ rngCalls = 0 /\ results = <<>>

C7_Witness ==
    /\ pc = "panic" /\ err = NO_DATA
    /\ Weighted /\ amount > 0 /\ weights = <<>>

\* C8: the weighted sampler with amount 0 returns the empty sequence for
\* any weights, the empty ones included, without asking the random source.
C8_ZeroAmountNoRng ==
    (Weighted /\ amount = 0 /\ pc # "cmw_entry")
    => /\ pc = "done" /\ results = <<>>
       /\ rngCalls = 0

C8_Witness ==
    /\ pc = "done" /\ Weighted
    /\ amount = 0 /\ weights = <<>> /\ results = <<>>

\* C9: choose_multiple, and the weighted sampler on all-zero weights,
\* return every index floor(amount/N) or ceil(amount/N) times.
C9_FloorOrCeil ==
    (/\ pc = "done" /\ NumCandidates > 0
     /\ ~Weighted \/ AllZero(weights))
    => \A i \in 0 .. (NumCandidates - 1) :
          Count(results, i) \in {amount \div NumCandidates,
                                 CeilDiv(amount, NumCandidates)}

C9_Witness ==
    /\ pc = "done" /\ Weighted
    /\ weights = <<FZero, FZero, FZero>> /\ amount = 6
    /\ \A i \in 0 .. 2 : Count(results, i) = 2

\* C10: the loop of choose_multiple runs at most ceil(amount/items) times;
\* every iteration but the last appends the whole range, the last appends
\* at most `items` distinct indices, and an iteration can only start while
\* fewer than ceil(amount/items) have run.
C10_LoopBound ==
    (pc \in {"cm_loop", "cm_shuffle", "done"} /\ items > 0)
    => /\ Len(batches) <= CeilDiv(amount, items)
       /\ \A b \in 1 .. (Len(batches) - 1) : batches[b] = FullRound(items)
       /\ \A b \in 1 .. Len(batches) :
             /\ Len(batches[b]) \in 1 .. items
             /\ Injective(batches[b])
             /\ \A k \in 1 .. Len(batches[b]) : batches[b][k] \in 0 .. (items - 1)
       /\ (pc = "cm_loop" /\ Len(results) < amount)
             => Len(batches) < CeilDiv(amount, items)
       /\ pc # "cm_loop" => Len(batches) = CeilDiv(amount, items)

C10_Witness ==
    /\ pc = "done" /\ ~Weighted
    /\ items = 3 /\ amount = 7
    /\ Len(batches) = 3 /\ Len(batches[3]) = 1

====
